---- MODULE Spec2Model ----
(***************************************************************************)
(* Model of src/app.py: the Telegram image bot's per-user session store,   *)
(* the two request handlers (handle_script, on_regen_button) and the       *)
(* helpers they call.                                                      *)
(*                                                                         *)
(* The handlers are asyncio coroutines.  Code between two awaited network  *)
(* calls runs without interruption, so every action below is one such      *)
(* stretch: it starts when an awaited Bot API call returns (or an update   *)
(* arrives) and ends where the next Bot API call is awaited.  The OpenAI   *)
(* client of line 35 is the synchronous client, so generate_image_url      *)
(* holds no suspension point and runs inside the stretch that calls it.    *)
(* What a Bot API call does on the platform (a message appears, a message  *)
(* goes away, buttons change) happens in the step in which the call        *)
(* returns; a call that raises has done nothing on the platform.           *)
(*                                                                         *)
(* Text is a sequence of Unicode code points.                              *)
(***************************************************************************)
EXTENDS Integers, Sequences, FiniteSets, TLC

VARIABLES
    UserSessions,   \* line 40: user id -> session dict
    msgs,           \* the platform's chats: chat id -> messages, message id = index
    flows,          \* one record per handler invocation (its locals and position)
    genCalls,       \* prompts handed to images.generate, in call order
    log             \* per invocation: the calls it has made, in order (history)

vars == <<UserSessions, msgs, flows, genCalls, log>>

----------------------------------------------------------------------------
\* Bounds of the model

\* handler invocations (updates) in one run of Spec
MaxFlows == 2
\* longest text / callback data drawn in SpecText
MaxLen == 3

Flows == 1..MaxFlows
Users == {101, 102}
Chats == {7, 8}

----------------------------------------------------------------------------
\* Values

\* Python None (dict.get of a missing key, an absent text)
None == -1
\* '|'
Pipe == 124
\* ' '
Space == 32
\* U+0980 and U+09FF, the ends of the character class of line 45
BanglaLo == 2432
BanglaHi == 2559

\* "regen"
REGEN == <<114, 101, 103, 101, 110>>
\* an absent text (None where a str is expected)
NoText == <<None>>

\* the code points the texts of SpecText are drawn from: ' ', '|', the two ends
\* of the Bangla block and the code points just outside it
Alphabet == {Space, Pipe, BanglaLo - 1, BanglaLo, BanglaHi, BanglaHi + 1}

RECURSIVE StringsOfLen(_)
StringsOfLen(n) ==
    IF n = 0 THEN {<<>>}
    ELSE {Append(s, ch) : s \in StringsOfLen(n - 1), ch \in Alphabet}

StringsUpTo(n) == UNION {StringsOfLen(k) : k \in 0..n}

\* truthiness of an int-or-None (line 51)
Truthy(x) == x # None /\ x # 0

\* `x or ""` (lines 45, 127, 176)
OrEmpty(x) == IF x = NoText THEN <<>> ELSE x

----------------------------------------------------------------------------
\* Helpers (lines 43-111)

\* re.search over the class [U+0980-U+09FF], scanning from position i: the position
\* of the first match, or 0 when there is none
RECURSIVE ReSearchBangla(_, _)
ReSearchBangla(text, i) ==
    IF i > Len(text) THEN 0
    ELSE IF text[i] >= BanglaLo /\ text[i] <= BanglaHi THEN i
    ELSE ReSearchBangla(text, i + 1)

\* the character class ending one code point early
detect_language_narrow(text) ==
    IF \E i \in DOMAIN OrEmpty(text) :
          OrEmpty(text)[i] >= BanglaLo /\ OrEmpty(text)[i] < BanglaHi
    THEN "bangla" ELSE "english"

\* line 45
detect_language(text) ==
    IF ReSearchBangla(OrEmpty(text), 1) # 0 THEN "bangla" ELSE "english"

\* str.find: position of the first sep at or after i, 0 when there is none
RECURSIVE Find(_, _, _)
Find(s, sep, i) ==
    IF i > Len(s) THEN 0
    ELSE IF s[i] = sep THEN i
    ELSE Find(s, sep, i + 1)

\* position of the last sep at or before i, 0 when there is none
RECURSIVE RFind(_, _, _)
RFind(s, sep, i) ==
    IF i < 1 THEN 0
    ELSE IF s[i] = sep THEN i
    ELSE RFind(s, sep, i - 1)

\* s.split("|") without maxsplit: every separator splits
RECURSIVE SplitAll(_)
SplitAll(s) ==
    LET i == Find(s, Pipe, 1)
    IN IF i = 0 THEN <<s>>
       ELSE <<SubSeq(s, 1, i - 1)>> \o SplitAll(SubSeq(s, i + 1, Len(s)))

\* s.rsplit("|", 1): the last separator splits
RSplit1(s) ==
    LET i == RFind(s, Pipe, Len(s))
    IN IF i = 0 THEN <<s>>
       ELSE <<SubSeq(s, 1, i - 1), SubSeq(s, i + 1, Len(s))>>

\* s.split("|", 1) of line 176: the first separator splits, at most two parts
Split1(s) ==
    LET i == Find(s, Pipe, 1)
    IN IF i = 0 THEN <<s>>
       ELSE <<SubSeq(s, 1, i - 1), SubSeq(s, i + 1, Len(s))>>

\* lines 176-177: the script a callback's data decodes to
DecodeScript(data) ==
    LET parts == Split1(OrEmpty(data))
    IN IF Len(parts) = 2 THEN parts[2] ELSE <<>>

\* f"regen|{script}" of lines 105, 106, 139, 140, 186, 187
CallbackData(script) == REGEN \o <<Pipe>> \o script

\* str.strip() of line 127
RECURSIVE LStrip(_)
LStrip(s) == IF s # <<>> /\ Head(s) = Space THEN LStrip(Tail(s)) ELSE s

RECURSIVE RStrip(_)
RStrip(s) ==
    IF s # <<>> /\ s[Len(s)] = Space THEN RStrip(SubSeq(s, 1, Len(s) - 1)) ELSE s

Strip(s) == RStrip(LStrip(s))

\* the n-th value uuid.uuid4() returns, as text: uuid4 values are taken to be
\* pairwise different, and str() gives every one of them the same width
HexDigit(d) == IF d < 10 THEN 48 + d ELSE 87 + d
Uuid4(n) == <<HexDigit((n \div 16) % 16), HexDigit(n % 16)>>

\* "\n\n# variation:"
VariationAnchor == <<10, 10, 35, 32, 118, 97, 114, 105, 97, 116, 105, 111, 110, 58>>

\* the token is drawn once, when the module is loaded
variation_suffix_fixed(n) == VariationAnchor \o Uuid4(0)

\* lines 57-59, on the n-th call (n counts from 0)
variation_suffix(n) == VariationAnchor \o Uuid4(n)

\* the prompt of line 69
UpstreamPrompt(prompt, n) == prompt \o variation_suffix(n)

\* What images.generate can answer (lines 67-72): it raises exc, or returns
\* data; an item's url / b64_json is "" when the attribute is missing or None.
Raised(msg) == [exc |-> msg, data |-> <<>>]
Returned(items) == [exc |-> "", data |-> items]
Item(url, b64) == [url |-> url, b64_json |-> b64]

AllUpstream ==
    {Raised("rate limit exceeded"), Returned(<<>>)}
    \cup {Returned(<<Item(u, b)>>) : u \in {"", "https://img/1"},
                                  b \in {"", "aGk=", "not-base64"}}

Success(ref) == [ok |-> TRUE, value |-> ref]
Failure(reason) == [ok |-> FALSE, value |-> reason]

\* line 87: the reason given when the response holds no image in either form
NoImageReason == "OpenAI did not return URL or b64 image data."

\* lines 61-89; disk_ok: the temporary file can be written
generate_image_url(resp, disk_ok) ==
    IF resp.exc # "" THEN Failure(resp.exc)
    ELSE IF resp.data # <<>> /\ resp.data[1].url # "" THEN Success(resp.data[1].url)
    ELSE IF resp.data = <<>> THEN Failure("list index out of range")
    ELSE IF resp.data[1].b64_json # "" THEN
        IF resp.data[1].b64_json = "not-base64" THEN Failure("Incorrect padding")
        ELSE IF ~disk_ok THEN Failure("No space left on device")
        ELSE Success("/tmp/tmpfile.png")
    ELSE Failure(NoImageReason)

\* lines 77-82: the call gets as far as writing the decoded bytes to a
\* temporary file
WritesFile(resp) ==
    /\ resp.exc = ""
    /\ resp.data # <<>>
    /\ resp.data[1].url = ""
    /\ resp.data[1].b64_json \notin {"", "not-base64"}

\* lines 157-162: the notice is <<template, reason>>, standing for template + reason.
\* (the Bangla template is written in Latin letters here)
BanglaTemplate == "X ekti truti ghoteche!\nkaron: "
EnglishTemplate == "X An error occurred!\nReason: "

ErrorMsg(script, reason) ==
    IF detect_language(script) = "bangla"
    THEN <<BanglaTemplate, reason>>
    ELSE <<EnglishTemplate, reason>>

\* inline keyboard buttons
Button(text, data, url) == [text |-> text, callback_data |-> data, url |-> url]

\* lines 138-141 and 185-188
RegenKeyboard(script) ==
    << Button("ENTIRE", CallbackData(script), ""),
       Button("GO", CallbackData(script), "") >>

\* the rebuilt buttons carry "regen|" without the script
DownloadKeyboard_bare(script, download_url) ==
    << Button("ENTIRE", CallbackData(<<>>), ""),
       Button("GO", CallbackData(<<>>), ""),
       Button("Download", <<>>, download_url) >>

\* lines 104-108
DownloadKeyboard(script, download_url) ==
    << Button("ENTIRE", CallbackData(script), ""),
       Button("GO", CallbackData(script), ""),
       Button("Download", <<>>, download_url) >>

----------------------------------------------------------------------------
\* State

\* a session dict; a missing key reads as None (dict.get)
Dict(chat_id, last_msg_id) ==
    [exists |-> TRUE, chat_id |-> chat_id, last_msg_id |-> last_msg_id]
\* the user has no entry in UserSessions
NoEntry == [exists |-> FALSE, chat_id |-> None, last_msg_id |-> None]

\* the entry is made anew on every interaction
SessionGet_reset(user_id) == Dict(None, None)

\* UserSessions.get(user_id, {}) of lines 128 and 172, and
\* UserSessions.get(user_id) or {} of line 48
SessionGet(user_id) ==
    IF UserSessions[user_id].exists THEN UserSessions[user_id] ELSE Dict(None, None)

\* a handler invocation that has not started
NewFlow ==
    [pc |-> "new", handler |-> "", user |-> None, chat |-> None,
     data |-> NoText, script |-> <<>>, resp |-> Raised(""), disk_ok |-> TRUE,
     result |-> Failure(""),
     error_msg |-> <<"", "">>, del_chat |-> None, del_msg |-> None,
     sent |-> None]

\* a message of the bot in a chat: flow and user say which invocation sent it
\* and for whom, date orders the messages of all chats
PhotoMessage(f, fl, date) ==
    [kind |-> "photo", flow |-> f, user |-> fl.user, visible |-> TRUE, date |-> date,
     photo |-> fl.result.value, text |-> <<"", "">>,
     reply_markup |-> RegenKeyboard(fl.script)]
\* the notice keeps the regenerate buttons
TextMessage_with_markup(f, fl, date) ==
    [kind |-> "text", flow |-> f, user |-> fl.user, visible |-> TRUE, date |-> date,
     photo |-> "", text |-> fl.error_msg, reply_markup |-> RegenKeyboard(fl.script)]

TextMessage(f, fl, date) ==
    [kind |-> "text", flow |-> f, user |-> fl.user, visible |-> TRUE, date |-> date,
     photo |-> "", text |-> fl.error_msg, reply_markup |-> <<>>]

RECURSIVE SumLen(_)
SumLen(S) ==
    IF S = {} THEN 0
    ELSE LET c == CHOOSE x \in S : TRUE IN Len(msgs[c]) + SumLen(S \ {c})

\* the date of the next message sent
NextDate == SumLen(Chats) + 1

Event(ev, arg) == [ev |-> ev, arg |-> arg]

Init ==
    /\ UserSessions = [u \in Users |-> NoEntry]
    /\ msgs = [c \in Chats |-> <<>>]
    /\ flows = [f \in Flows |-> NewFlow]
    /\ genCalls = <<>>
    /\ log = [f \in Flows |-> <<>>]

\* updates are handled in the order they arrive
CanStart(f) == flows[f].pc = "new" /\ \A g \in 1..(f - 1) : flows[g].pc # "new"

\* the invocations for user u that have started and not ended (history only)
InFlight(u) ==
    {g \in Flows : flows[g].user = u /\ flows[g].pc \notin {"new", "done", "raised"}}

\* the message (chat_id, message_id) is there to be deleted or edited
Exists(chat_id, message_id) ==
    /\ message_id \in 1..Len(msgs[chat_id])
    /\ msgs[chat_id][message_id].visible

----------------------------------------------------------------------------
\* Stretches of handler code shared by the two handlers

\* lines 134-135 with 61-89, then 138-144 (Success) or 156-163 (Failure):
\* generate, then await the send.  fl and lg are the invocation's record and
\* history on entry.  The record keeps what the upstream answered and, when the
\* call got as far as writing the temporary file, whether that write went well
\* (history only).
Generate(f, fl, lg, resp, disk_ok) ==
    LET n == Len(genCalls)
        res == generate_image_url(resp, disk_ok)
        gl == [fl EXCEPT !.resp = resp, !.disk_ok = WritesFile(resp) => disk_ok,
                         !.result = res]
    IN /\ genCalls' = Append(genCalls, UpstreamPrompt(fl.script, n))
       /\ flows' = [flows EXCEPT ![f] =
             IF res.ok
             THEN [gl EXCEPT !.pc = "reply_photo"]
             ELSE [gl EXCEPT !.pc = "reply_text",
                             !.error_msg = ErrorMsg(fl.script, res.value)]]
       /\ log' = [log EXCEPT ![f] =
             lg \o <<Event("generate", n),
                     IF res.ok THEN Event("reply_photo", 0) ELSE Event("reply_text", 0)>>]

\* nothing is ever deleted
should_delete_never(last_msg_id, chat_id) == FALSE

\* line 51
should_delete(last_msg_id, chat_id) == Truthy(last_msg_id) /\ Truthy(chat_id)

\* the deletion is asked for and not awaited: the handler goes on to generate
\* without its return
Retire_not_awaited(f, fl, lg, sessions, resp, disk_ok) ==
    LET data == IF sessions[fl.user].exists THEN sessions[fl.user] ELSE Dict(None, None)
        last_msg_id == data.last_msg_id
        chat_id == data.chat_id
    IN IF should_delete(last_msg_id, chat_id)
       THEN Generate(f, [fl EXCEPT !.del_chat = chat_id, !.del_msg = last_msg_id],
                     lg \o <<Event("read_last", last_msg_id), Event("delete", last_msg_id)>>,
                     resp, disk_ok)
       ELSE Generate(f, fl, Append(lg, Event("read_last", last_msg_id)), resp, disk_ok)

\* lines 132 / 180 with 47-53, entered with the session map as sessions:
\* await the delete when there is something to delete, else go on to generate
Retire(f, fl, lg, sessions, resp, disk_ok) ==
    LET data == IF sessions[fl.user].exists THEN sessions[fl.user] ELSE Dict(None, None)
        last_msg_id == data.last_msg_id
        chat_id == data.chat_id
    IN IF should_delete(last_msg_id, chat_id)
       THEN /\ flows' = [flows EXCEPT ![f] =
                  [fl EXCEPT !.pc = "delete", !.del_chat = chat_id, !.del_msg = last_msg_id]]
            /\ log' = [log EXCEPT ![f] =
                  lg \o <<Event("read_last", last_msg_id), Event("delete", last_msg_id)>>]
            /\ UNCHANGED genCalls
       ELSE Generate(f, fl, Append(lg, Event("read_last", last_msg_id)), resp, disk_ok)

----------------------------------------------------------------------------
\* handle_script (lines 124-164)

\* lines 125-132, up to the first awaited network call
HandleScript(f, u, c, text, resp, disk_ok) ==
    /\ CanStart(f)
    /\ LET script == Strip(OrEmpty(text))
           fl == [NewFlow EXCEPT !.handler = "handle_script", !.user = u, !.chat = c,
                                 !.script = script]
           sessions == [UserSessions EXCEPT ![u] = [SessionGet(u) EXCEPT !.chat_id = c]]
       IN /\ UserSessions' = sessions
          /\ Retire(f, fl, <<Event("begin", Cardinality(InFlight(u))), Event("set_chat", c)>>,
                    sessions, resp, disk_ok)
    /\ UNCHANGED msgs

----------------------------------------------------------------------------
\* on_regen_button (lines 166-207)

\* the chat is stored (lines 170-173) before query.answer() is awaited
OnRegenButton_session_first(f, u, c, data) ==
    /\ CanStart(f)
    /\ flows' = [flows EXCEPT ![f] =
          [NewFlow EXCEPT !.pc = "answer", !.handler = "on_regen_button",
                          !.user = u, !.chat = c, !.data = data]]
    /\ UserSessions' = [UserSessions EXCEPT ![u] = [SessionGet(u) EXCEPT !.chat_id = c]]
    /\ log' = [log EXCEPT ![f] =
          <<Event("begin", Cardinality(InFlight(u))), Event("set_chat", c),
            Event("answer", 0)>>]
    /\ UNCHANGED <<msgs, genCalls>>

\* lines 167-168: the update arrives and query.answer() is awaited
OnRegenButton(f, u, c, data) ==
    /\ CanStart(f)
    /\ flows' = [flows EXCEPT ![f] =
          [NewFlow EXCEPT !.pc = "answer", !.handler = "on_regen_button",
                          !.user = u, !.chat = c, !.data = data]]
    /\ log' = [log EXCEPT ![f] =
          <<Event("begin", Cardinality(InFlight(u))), Event("answer", 0)>>]
    /\ UNCHANGED <<UserSessions, msgs, genCalls>>

\* query.answer() returned: lines 170-180
AnswerOk(f, resp, disk_ok) ==
    /\ flows[f].pc = "answer"
    /\ LET u == flows[f].user
           c == flows[f].chat
           fl == [flows[f] EXCEPT !.script = DecodeScript(flows[f].data)]
           sessions == [UserSessions EXCEPT ![u] = [SessionGet(u) EXCEPT !.chat_id = c]]
       IN /\ UserSessions' = sessions
          /\ Retire(f, fl, log[f] \o <<Event("answered", 0), Event("set_chat", c)>>,
                    sessions, resp, disk_ok)
    /\ UNCHANGED msgs

\* query.answer() raised: line 168 is outside the try, the handler ends
AnswerFail(f) ==
    /\ flows[f].pc = "answer"
    /\ flows' = [flows EXCEPT ![f].pc = "raised"]
    /\ log' = [log EXCEPT ![f] = Append(@, Event("answer_failed", 0))]
    /\ UNCHANGED <<UserSessions, msgs, genCalls>>

----------------------------------------------------------------------------
\* The awaited calls return (both handlers)

\* delete_message succeeded (line 53): the message is gone; go on at line 134 / 182
DeleteOk(f, resp, disk_ok) ==
    /\ flows[f].pc = "delete"
    /\ Exists(flows[f].del_chat, flows[f].del_msg)
    /\ msgs' = [msgs EXCEPT ![flows[f].del_chat][flows[f].del_msg].visible = FALSE]
    /\ Generate(f, flows[f], Append(log[f], Event("delete_ok", flows[f].del_msg)),
                resp, disk_ok)
    /\ UNCHANGED UserSessions

\* delete_message raised (lines 54-55): logged at debug level; go on at line 134 / 182.
\* The history tells a refusal to delete a message that is there from a
\* request for a message that is not there.
DeleteFail(f, resp, disk_ok) ==
    /\ flows[f].pc = "delete"
    /\ Generate(f, flows[f],
                Append(log[f],
                       IF Exists(flows[f].del_chat, flows[f].del_msg)
                       THEN Event("delete_refused", flows[f].del_msg)
                       ELSE Event("delete_missing", flows[f].del_msg)),
                resp, disk_ok)
    /\ UNCHANGED <<UserSessions, msgs>>

\* the id of the sent message is dropped
record_nothing(sessions, u, message_id) == sessions

\* dict.setdefault: the id is stored only when none is stored yet
record_setdefault(sessions, u, message_id) ==
    IF sessions[u].last_msg_id = None
    THEN [sessions EXCEPT ![u].last_msg_id = message_id]
    ELSE sessions

\* lines 151, 164, 196, 207
record_last_msg_id(sessions, u, message_id) ==
    [sessions EXCEPT ![u].last_msg_id = message_id]

\* reply_photo returned the sent message (lines 144-148 / 191-195): lines 151 / 196,
\* then add_download_button up to the awaited get_file (lines 95-100)
ReplyPhotoOk(f) ==
    /\ flows[f].pc = "reply_photo"
    /\ LET c == flows[f].chat
           message_id == Len(msgs[c]) + 1
       IN /\ msgs' = [msgs EXCEPT ![c] = Append(@, PhotoMessage(f, flows[f], NextDate))]
          /\ UserSessions' = record_last_msg_id(UserSessions, flows[f].user, message_id)
          /\ flows' = [flows EXCEPT ![f].pc = "get_file", ![f].sent = message_id]
          /\ log' = [log EXCEPT ![f] =
                @ \o <<Event("photo_sent", message_id), Event("record", message_id),
                       Event("get_file", 0)>>]
    /\ UNCHANGED genCalls

\* the exception text of a failed platform call
SendError == "Timed out"

\* reply_photo raised: lines 156-163, the notice carries the exception's text
ReplyPhotoFail(f) ==
    /\ flows[f].pc = "reply_photo"
    /\ flows' = [flows EXCEPT ![f].pc = "reply_text",
                              ![f].error_msg = ErrorMsg(flows[f].script, SendError)]
    /\ log' = [log EXCEPT ![f] =
          @ \o <<Event("photo_failed", 0), Event("reply_text", 0)>>]
    /\ UNCHANGED <<UserSessions, msgs, genCalls>>

\* the notice is sent and its id is not recorded
ReplyTextOk_unrecorded(f) ==
    /\ flows[f].pc = "reply_text"
    /\ LET c == flows[f].chat
           message_id == Len(msgs[c]) + 1
       IN /\ msgs' = [msgs EXCEPT ![c] = Append(@, TextMessage(f, flows[f], NextDate))]
          /\ flows' = [flows EXCEPT ![f].pc = "done", ![f].sent = message_id]
          /\ log' = [log EXCEPT ![f] = Append(@, Event("text_sent", message_id))]
    /\ UNCHANGED <<UserSessions, genCalls>>

\* reply_text returned the sent message (lines 163 / 206): lines 164 / 207
ReplyTextOk(f) ==
    /\ flows[f].pc = "reply_text"
    /\ LET c == flows[f].chat
           message_id == Len(msgs[c]) + 1
       IN /\ msgs' = [msgs EXCEPT ![c] = Append(@, TextMessage(f, flows[f], NextDate))]
          /\ UserSessions' = record_last_msg_id(UserSessions, flows[f].user, message_id)
          /\ flows' = [flows EXCEPT ![f].pc = "done", ![f].sent = message_id]
          /\ log' = [log EXCEPT ![f] =
                @ \o <<Event("text_sent", message_id), Event("record", message_id)>>]
    /\ UNCHANGED genCalls

\* reply_text raised inside the except block: the exception leaves the handler
ReplyTextFail(f) ==
    /\ flows[f].pc = "reply_text"
    /\ flows' = [flows EXCEPT ![f].pc = "raised"]
    /\ log' = [log EXCEPT ![f] = Append(@, Event("text_failed", 0))]
    /\ UNCHANGED <<UserSessions, msgs, genCalls>>

\* the file path get_file returns
DownloadUrl == "https://api.telegram.org/file/bot/path"

\* get_file returned (lines 100-108): edit_reply_markup is awaited (line 109)
GetFileOk(f) ==
    /\ flows[f].pc = "get_file"
    /\ flows' = [flows EXCEPT ![f].pc = "edit_markup"]
    /\ log' = [log EXCEPT ![f] = @ \o <<Event("get_file_ok", 0), Event("edit_markup", 0)>>]
    /\ UNCHANGED <<UserSessions, msgs, genCalls>>

\* get_file raised (lines 110-111)
GetFileFail(f) ==
    /\ flows[f].pc = "get_file"
    /\ flows' = [flows EXCEPT ![f].pc = "done"]
    /\ log' = [log EXCEPT ![f] = Append(@, Event("get_file_failed", 0))]
    /\ UNCHANGED <<UserSessions, msgs, genCalls>>

\* edit_reply_markup returned (line 109): the message has the three buttons
EditMarkupOk(f) ==
    /\ flows[f].pc = "edit_markup"
    /\ Exists(flows[f].chat, flows[f].sent)
    /\ msgs' = [msgs EXCEPT ![flows[f].chat][flows[f].sent].reply_markup =
                    DownloadKeyboard(flows[f].script, DownloadUrl)]
    /\ flows' = [flows EXCEPT ![f].pc = "done"]
    /\ log' = [log EXCEPT ![f] = Append(@, Event("edit_ok", 0))]
    /\ UNCHANGED <<UserSessions, genCalls>>

\* the exception of edit_reply_markup is not caught in add_download_button and
\* reaches the handler's except block, which sends a notice
EditMarkupFail_propagates(f) ==
    /\ flows[f].pc = "edit_markup"
    /\ flows' = [flows EXCEPT ![f].pc = "reply_text",
                              ![f].error_msg = ErrorMsg(flows[f].script, SendError)]
    /\ log' = [log EXCEPT ![f] =
          @ \o <<Event("edit_failed", 0), Event("reply_text", 0)>>]
    /\ UNCHANGED <<UserSessions, msgs, genCalls>>

\* edit_reply_markup raised (lines 110-111)
EditMarkupFail(f) ==
    /\ flows[f].pc = "edit_markup"
    /\ flows' = [flows EXCEPT ![f].pc = "done"]
    /\ log' = [log EXCEPT ![f] = Append(@, Event("edit_failed", 0))]
    /\ UNCHANGED <<UserSessions, msgs, genCalls>>

----------------------------------------------------------------------------
\* Specification of concurrent handler invocations

\* the text users send in Spec: " a" (SpecText draws every text)
Texts == {<<Space, 97>>}

\* the callback data a tap in chat c carries: that of the ENTIRE or the GO
\* button of a message shown there
TapData(c) ==
    {msgs[c][i].reply_markup[j].callback_data :
        i \in {k \in 1..Len(msgs[c]) :
                 msgs[c][k].visible /\ msgs[c][k].reply_markup # <<>>},
        j \in 1..2}

\* Users and chats are interchangeable in this module, so the first update is
\* taken to come from user 101 in chat 7; every other run is one of these with
\* the users or the chats renamed.
UsersAt(f) == IF f = 1 THEN {101} ELSE Users
ChatsAt(f) == IF f = 1 THEN {7} ELSE Chats

\* what images.generate answers in Spec: an error, or an item with a URL
Upstream == {Raised("rate limit exceeded"), Returned(<<Item("https://img/1", "")>>)}

Next ==
    \/ \E f \in Flows :
          /\ CanStart(f)
          /\ \E u \in UsersAt(f), c \in ChatsAt(f), text \in Texts,
                resp \in Upstream, disk_ok \in BOOLEAN :
                  HandleScript(f, u, c, text, resp, disk_ok)
    \/ \E f \in Flows :
          /\ CanStart(f)
          /\ \E u \in UsersAt(f), c \in ChatsAt(f) :
                \E data \in TapData(c) : OnRegenButton(f, u, c, data)
    \/ \E f \in Flows, resp \in Upstream, disk_ok \in BOOLEAN : AnswerOk(f, resp, disk_ok)
    \/ \E f \in Flows : AnswerFail(f)
    \/ \E f \in Flows, resp \in Upstream, disk_ok \in BOOLEAN : DeleteOk(f, resp, disk_ok)
    \/ \E f \in Flows, resp \in Upstream, disk_ok \in BOOLEAN : DeleteFail(f, resp, disk_ok)
    \/ \E f \in Flows : ReplyPhotoOk(f)
    \/ \E f \in Flows : ReplyPhotoFail(f)
    \/ \E f \in Flows : ReplyTextOk(f)
    \/ \E f \in Flows : ReplyTextFail(f)
    \/ \E f \in Flows : GetFileOk(f)
    \/ \E f \in Flows : GetFileFail(f)
    \/ \E f \in Flows : EditMarkupOk(f)
    \/ \E f \in Flows : EditMarkupFail(f)

Spec == Init /\ [][Next]_vars

----------------------------------------------------------------------------
\* Specification of one handler invocation on any text.  It starts where
\* Spec stands after user 101 sent "a" in chat 7 and got the image with its
\* three buttons (SeedState is a state of Spec); then one more update is
\* handled, with its text or callback data drawn from every string over
\* Alphabet of at most MaxLen code points and every answer of the generator.

SeedFlow ==
    [NewFlow EXCEPT !.pc = "done", !.handler = "handle_script", !.user = 101,
                    !.chat = 7, !.script = <<97>>,
                    !.resp = Returned(<<Item("https://img/1", "")>>),
                    !.result = Success("https://img/1"), !.sent = 1]

SeedLog ==
    << Event("begin", 0), Event("set_chat", 7), Event("read_last", None),
       Event("generate", 0), Event("reply_photo", 0),
       Event("photo_sent", 1), Event("record", 1), Event("get_file", 0),
       Event("get_file_ok", 0), Event("edit_markup", 0), Event("edit_ok", 0) >>

SeedState ==
    /\ UserSessions = [u \in Users |-> IF u = 101 THEN Dict(7, 1) ELSE NoEntry]
    /\ msgs = [c \in Chats |->
          IF c = 7
          THEN <<[PhotoMessage(1, SeedFlow, 1) EXCEPT
                    !.reply_markup = DownloadKeyboard(<<97>>, DownloadUrl)]>>
          ELSE <<>>]
    /\ flows = [f \in Flows |-> IF f = 1 THEN SeedFlow ELSE NewFlow]
    /\ genCalls = <<UpstreamPrompt(<<97>>, 0)>>
    /\ log = [f \in Flows |-> IF f = 1 THEN SeedLog ELSE <<>>]

InitText == SeedState

WideTexts == StringsUpTo(MaxLen)
WideData == WideTexts \cup {NoText} \cup {CallbackData(P) : P \in WideTexts}

NextText ==
    \/ /\ CanStart(2)
       /\ \E u \in Users, c \in Chats, text \in WideTexts,
             resp \in AllUpstream, disk_ok \in BOOLEAN :
               HandleScript(2, u, c, text, resp, disk_ok)
    \/ /\ CanStart(2)
       /\ \E u \in Users, c \in Chats, data \in WideData : OnRegenButton(2, u, c, data)
    \/ \E resp \in AllUpstream, disk_ok \in BOOLEAN : AnswerOk(2, resp, disk_ok)
    \/ AnswerFail(2)
    \/ \E resp \in AllUpstream, disk_ok \in BOOLEAN : DeleteOk(2, resp, disk_ok)
    \/ \E resp \in AllUpstream, disk_ok \in BOOLEAN : DeleteFail(2, resp, disk_ok)
    \/ ReplyPhotoOk(2)
    \/ ReplyPhotoFail(2)
    \/ ReplyTextOk(2)
    \/ ReplyTextFail(2)
    \/ GetFileOk(2)
    \/ GetFileFail(2)
    \/ EditMarkupOk(2)
    \/ EditMarkupFail(2)

SpecText == InitText /\ [][NextText]_vars

----------------------------------------------------------------------------
\* Specification of repeated taps on the regenerate buttons by one user in
\* one chat.  It starts where an earlier invocation (its record is not kept,
\* its message carries invocation number 0) has delivered the image for "a"
\* to user 101 in chat 7 with its three buttons; then that user taps a
\* regenerate button of a message shown in that chat, once per invocation of
\* Flows, and the invocations overlap as Spec lets them.

InitRace ==
    /\ UserSessions = [u \in Users |-> IF u = 101 THEN Dict(7, 1) ELSE NoEntry]
    /\ msgs = [c \in Chats |->
          IF c = 7
          THEN <<[PhotoMessage(0, SeedFlow, 1) EXCEPT
                    !.reply_markup = DownloadKeyboard(<<97>>, DownloadUrl)]>>
          ELSE <<>>]
    /\ flows = [f \in Flows |-> NewFlow]
    /\ genCalls = <<UpstreamPrompt(<<97>>, 0)>>
    /\ log = [f \in Flows |-> <<>>]

\* what images.generate answers in SpecRace: an item with a URL (a notice is
\* sent there when the photo send fails)
UpstreamOk == {Returned(<<Item("https://img/1", "")>>)}

NextRace ==
    \/ \E f \in Flows :
          /\ CanStart(f)
          /\ \E data \in TapData(7) : OnRegenButton(f, 101, 7, data)
    \/ \E f \in Flows, resp \in UpstreamOk, disk_ok \in BOOLEAN : AnswerOk(f, resp, disk_ok)
    \/ \E f \in Flows : AnswerFail(f)
    \/ \E f \in Flows, resp \in UpstreamOk, disk_ok \in BOOLEAN : DeleteOk(f, resp, disk_ok)
    \/ \E f \in Flows, resp \in UpstreamOk, disk_ok \in BOOLEAN : DeleteFail(f, resp, disk_ok)
    \/ \E f \in Flows : ReplyPhotoOk(f)
    \/ \E f \in Flows : ReplyPhotoFail(f)
    \/ \E f \in Flows : ReplyTextOk(f)
    \/ \E f \in Flows : ReplyTextFail(f)
    \/ \E f \in Flows : GetFileOk(f)
    \/ \E f \in Flows : GetFileFail(f)
    \/ \E f \in Flows : EditMarkupOk(f)
    \/ \E f \in Flows : EditMarkupFail(f)

SpecRace == InitRace /\ [][NextRace]_vars

----------------------------------------------------------------------------
\* Properties

\* where the call ev stands in the history of invocation f
Evs(f, ev) == {i \in DOMAIN log[f] : log[f][i].ev = ev}
HasEv(f, ev) == Evs(f, ev) # {}

\* the messages invocation f has sent, and those sent for user u
AllMsgs == UNION {{<<c, i>> : i \in DOMAIN msgs[c]} : c \in Chats}
Msg(p) == msgs[p[1]][p[2]]
SentBy(f) == {p \in AllMsgs : Msg(p).flow = f}
SentFor(u) == {p \in AllMsgs : Msg(p).user = u}
\* the message invocation f sent (when it has sent one)
Sent(f) == <<flows[f].chat, flows[f].sent>>

\* C1: an invocation that finds a tracked message id m asks for the deletion of
\* m exactly once, straight after reading it and before it asks for any send;
\* once the deletion has returned, with or without success, the invocation has
\* called the generator once and asked for a send; a failed deletion is not
\* asked for again and puts no message of its own into the chat.
C1_OneDeleteBeforeSend ==
    \A f \in Flows : \A i \in Evs(f, "read_last") :
        LET m == log[f][i].arg
            outcomes == Evs(f, "delete_ok") \cup Evs(f, "delete_refused")
                           \cup Evs(f, "delete_missing")
            sends == Evs(f, "reply_photo") \cup Evs(f, "reply_text")
        IN m # None =>
             /\ Evs(f, "delete") = {i + 1}
             /\ log[f][i + 1].arg = m
             /\ \A j \in sends \cup Evs(f, "photo_sent") \cup Evs(f, "text_sent") : j > i + 1
             /\ flows[f].pc = "delete" => flows[f].del_msg = m /\ outcomes = {} /\ sends = {}
             /\ flows[f].pc # "delete" =>
                  /\ outcomes = {i + 2}
                  /\ Evs(f, "generate") = {i + 3}
                  /\ sends # {}
             /\ Cardinality(SentBy(f)) <= 1
             /\ \A p \in SentBy(f) :
                  Msg(p).kind = "text" => ~flows[f].result.ok \/ HasEv(f, "photo_failed")

\* C1 witness: a deletion of the tracked message was refused and the image was
\* sent all the same
C1_Witness ==
    \E f \in Flows :
        /\ \E i \in Evs(f, "read_last") : log[f][i].arg # None
        /\ HasEv(f, "delete_refused")
        /\ HasEv(f, "photo_sent")
        /\ flows[f].pc = "done"

\* C2: a step in which a message is sent (an image or a notice, by either
\* handler) leaves the id of that message as the last message id of the user
\* it was sent for, whatever was stored before.
C2_SendIsRecorded ==
    [][\A c \in Chats :
          Len(msgs'[c]) > Len(msgs[c]) =>
             LET message_id == Len(msgs'[c])
                 u == msgs'[c][message_id].user
             IN /\ UserSessions'[u].exists
                /\ UserSessions'[u].last_msg_id = message_id]_vars

\* C2 witness: an invocation deleted the tracked message, sent a new one with
\* another id, and the session holds the new id
C2_Witness ==
    \E f \in Flows :
        /\ HasEv(f, "delete")
        /\ flows[f].sent # None
        /\ flows[f].sent # flows[f].del_msg
        /\ UserSessions[flows[f].user].last_msg_id = flows[f].sent

\* C3: for every user the last message id is absent when no image or notice
\* has been sent for that user, and otherwise is the id of the message sent
\* for that user last (a message counts as sent when its send call returns).
C3_LastIsMostRecent ==
    \A u \in Users :
        IF SentFor(u) = {}
        THEN UserSessions[u].last_msg_id = None
        ELSE \E p \in SentFor(u) :
                /\ \A q \in SentFor(u) : Msg(q).date <= Msg(p).date
                /\ UserSessions[u].exists
                /\ UserSessions[u].last_msg_id = p[2]

\* C3 witness: two messages were sent for a user, the later one a notice with
\* another id than the earlier, and the session holds the later id
C3_Witness ==
    \E u \in Users : \E p, q \in SentFor(u) :
        /\ Msg(p).date < Msg(q).date
        /\ p[2] # q[2]
        /\ Msg(q).kind = "text"
        /\ UserSessions[u].last_msg_id = q[2]

\* the invocations of user u that have started
FlowsOf(u) == {f \in Flows : flows[f].user = u}

\* C4: for a user whose invocations ran one at a time and never had the
\* deletion of an existing message refused, whenever none of them is running
\* at most one of the messages sent for that user is still shown, and it is
\* the message the session tracks.
C4_SingleVisibleResult ==
    \A u \in Users :
        LET shown == {p \in SentFor(u) : Msg(p).visible}
        IN (/\ InFlight(u) = {}
            /\ \A f \in FlowsOf(u) : log[f][1] = Event("begin", 0)
            /\ \A f \in FlowsOf(u) : ~HasEv(f, "delete_refused"))
           => /\ Cardinality(shown) <= 1
              /\ \A p \in shown :
                    /\ UserSessions[u].chat_id = p[1]
                    /\ UserSessions[u].last_msg_id = p[2]

\* C5 (in every state): an invocation whose generator call failed asks for one
\* text send and no photo send; the notice is the template followed by the
\* failure reason as returned; the only message it can have sent is that
\* notice, without buttons and without a photo; it has sent it when it is
\* done, and has sent nothing when the send raised.
C5_NoticeOnFailure ==
    \A f \in Flows :
        (HasEv(f, "generate") /\ ~flows[f].result.ok) =>
            /\ Cardinality(Evs(f, "reply_text")) = 1
            /\ Evs(f, "reply_photo") = {}
            /\ flows[f].error_msg[1] \in {BanglaTemplate, EnglishTemplate}
            /\ flows[f].error_msg[2] = flows[f].result.value
            /\ \A p \in SentBy(f) :
                  /\ p = <<flows[f].chat, flows[f].sent>>
                  /\ Msg(p).kind = "text"
                  /\ Msg(p).text = flows[f].error_msg
                  /\ Msg(p).reply_markup = <<>>
                  /\ Msg(p).photo = ""
            /\ flows[f].pc = "done" => Cardinality(SentBy(f)) = 1
            /\ flows[f].pc # "done" => SentBy(f) = {}

\* C5 (in every step): the step in which that notice is sent makes its id the
\* user's last message id.
C5_NoticeRecorded ==
    \A f \in Flows :
        (~flows[f].result.ok /\ flows[f].pc = "reply_text" /\ flows'[f].pc = "done") =>
            /\ SentBy(f)' = {<<flows[f].chat, flows'[f].sent>>}
            /\ UserSessions'[flows[f].user].last_msg_id = flows'[f].sent

\* C5: when the generator fails the invocation sends one text notice carrying
\* the failure reason as returned and no button, sends no image, and records
\* the id of the notice as the user's last message id.
C5_ErrorNotice == []C5_NoticeOnFailure /\ [][C5_NoticeRecorded]_vars

\* C5 witness: a regenerate invocation whose generator call failed has sent
\* its notice, which carries the reason, and the session tracks it
C5_Witness ==
    \E f \in Flows :
        /\ flows[f].handler = "on_regen_button"
        /\ flows[f].pc = "done"
        /\ ~flows[f].result.ok
        /\ \E p \in SentBy(f) : Msg(p).text[2] = "rate limit exceeded"
        /\ UserSessions[flows[f].user].last_msg_id = flows[f].sent

\* C6: an invocation asks for the send of a notice exactly when its generator
\* call failed; a failed photo send puts no notice into the chat and does not
\* end the handler with an exception.
C6_NoticeIffGenerationFailure ==
    \A f \in Flows :
        HasEv(f, "generate") =>
            /\ HasEv(f, "reply_text") <=> ~flows[f].result.ok
            /\ (\E p \in SentBy(f) : Msg(p).kind = "text") => ~flows[f].result.ok
            /\ HasEv(f, "photo_failed") => flows[f].pc # "raised"

\* C7: the prompts handed to the generator are pairwise different; each is the
\* script of the invocation that made the call followed by the variation
\* anchor and a token; every call is the one call of some invocation.
C7_DistinctPayloads ==
    /\ \A i, j \in DOMAIN genCalls : i # j => genCalls[i] # genCalls[j]
    /\ \A f \in Flows : \A k \in Evs(f, "generate") :
          LET payload == genCalls[log[f][k].arg + 1]
              P == flows[f].script
          IN /\ Len(payload) > Len(P) + Len(VariationAnchor)
             /\ SubSeq(payload, 1, Len(P)) = P
             /\ SubSeq(payload, Len(P) + 1, Len(P) + Len(VariationAnchor)) = VariationAnchor
    /\ \A n \in DOMAIN genCalls :
          Cardinality({f \in Flows : \E k \in Evs(f, "generate") : log[f][k].arg + 1 = n}) = 1

\* C7 witness: two invocations called the generator with the same script
C7_Witness ==
    \E f, g \in Flows :
        /\ f # g
        /\ HasEv(f, "generate") /\ HasEv(g, "generate")
        /\ flows[f].script = flows[g].script
        /\ flows[g].handler = "on_regen_button"

\* the regenerate invocations that have decoded their callback data (line 177)
Decoded == {f \in Flows : flows[f].handler = "on_regen_button" /\ HasEv(f, "answered")}

\* the positions of the separator in a text
Pipes(t) == {i \in DOMAIN t : t[i] = Pipe}
First(S) == CHOOSE i \in S : \A j \in S : i <= j

\* C8: the script decoded from callback data that holds a separator is all of
\* the data after its first separator, so that kind + '|' + script is the data
\* again, with a kind that holds no separator; data without a separator
\* (or no data) decodes to the empty script, and in both cases the invocation
\* goes on to retire and generate with that script.
C8_DecodeFirstSeparator ==
    \A f \in Decoded :
        LET data == flows[f].data
            script == flows[f].script
        IN /\ Pipes(data) = {} => script = <<>>
           /\ Pipes(data) # {} =>
                LET kind == SubSeq(data, 1, First(Pipes(data)) - 1)
                IN /\ Pipes(kind) = {}
                   /\ kind \o <<Pipe>> \o script = data
           /\ HasEv(f, "read_last")
           /\ flows[f].pc = "delete" \/ HasEv(f, "generate")
           /\ \A k \in Evs(f, "generate") :
                 genCalls[log[f][k].arg + 1] = script \o variation_suffix(log[f][k].arg)

\* C8 witness: the data of a button made for a prompt that holds a separator
\* was decoded to that prompt, and the image for it was sent
C8_Witness ==
    \E f \in Decoded : \E P \in WideTexts :
        /\ Pipes(P) # {}
        /\ flows[f].data = CallbackData(P)
        /\ flows[f].script = P
        /\ HasEv(f, "photo_sent")

\* the prompt a button of this bot was made for: its data without "regen|"
ButtonPrompt(data) == SubSeq(data, Len(REGEN) + 2, Len(data))
IsButtonData(data) ==
    /\ Len(data) > Len(REGEN)
    /\ SubSeq(data, 1, Len(REGEN) + 1) = REGEN \o <<Pipe>>

\* C9 as stated: for the data "regen|" + P of a prompt P that holds a
\* separator, the decoded script is the part of P before P's first separator.
C9_TruncatedAtSeparator ==
    \A f \in Decoded :
        LET P == ButtonPrompt(flows[f].data)
        IN (IsButtonData(flows[f].data) /\ Pipes(P) # {}) =>
              flows[f].script = SubSeq(P, 1, First(Pipes(P)) - 1)

\* C9 as amended: for the data "regen|" + P of a prompt P that holds a
\* separator, the decoded script is P in full, separators included; it is
\* longer than the part of P before P's first separator.
C9_FullPromptRecovered ==
    \A f \in Decoded :
        LET P == ButtonPrompt(flows[f].data)
        IN (IsButtonData(flows[f].data) /\ Pipes(P) # {}) =>
              /\ flows[f].script = P
              /\ Len(flows[f].script) > Len(SubSeq(P, 1, First(Pipes(P)) - 1))

\* C9 witness: a prompt with text on both sides of a separator came back whole
\* and the notice for it was sent
C9_Witness ==
    \E f \in Decoded :
        LET P == ButtonPrompt(flows[f].data)
        IN /\ IsButtonData(flows[f].data)
           /\ Pipes(P) # {} /\ 1 \notin Pipes(P) /\ Len(P) \notin Pipes(P)
           /\ flows[f].script = P
           /\ HasEv(f, "text_sent")

\* the script holds a code point of U+0980..U+09FF
HasBangla(script) == \E i \in DOMAIN script : script[i] \in BanglaLo..BanglaHi

\* C10 (in every state): the notice an invocation asks to send, and the notice
\* it has sent, starts with the Bangla template when the script holds a code
\* point of U+0980..U+09FF and with the English template otherwise; the empty
\* and the absent text are English.
C10_TemplateFollowsScript ==
    /\ \A f \in Flows :
          HasEv(f, "reply_text") =>
             LET template == IF HasBangla(flows[f].script)
                             THEN BanglaTemplate ELSE EnglishTemplate
             IN /\ flows[f].error_msg[1] = template
                /\ \A p \in SentBy(f) : Msg(p).kind = "text" => Msg(p).text[1] = template
    /\ detect_language(<<>>) = "english"
    /\ detect_language(NoText) = "english"

\* C10 (in every step): a stretch that only builds the notice (after a
\* deletion returned or a photo send raised) leaves the session store as it was.
C10_NoticeLeavesSessions ==
    \A f \in Flows :
        (flows[f].pc \in {"delete", "reply_photo"} /\ flows'[f].pc = "reply_text")
            => UserSessions' = UserSessions

\* C10: the notice's template is the Bangla one exactly for scripts with a
\* code point of the Bangla block, and choosing it does not touch the sessions.
C10_NoticeLanguage == []C10_TemplateFollowsScript /\ [][C10_NoticeLeavesSessions]_vars

\* C10 witness: a script whose only Bangla code point is U+09FF got the Bangla
\* notice
C10_Witness ==
    \E f \in Flows :
        /\ \E i \in DOMAIN flows[f].script : flows[f].script[i] = BanglaHi
        /\ \A i \in DOMAIN flows[f].script :
              flows[f].script[i] \in BanglaLo..BanglaHi => flows[f].script[i] = BanglaHi
        /\ \E p \in SentBy(f) : Msg(p).text[1] = BanglaTemplate

\* the invocations that have called the generator
Generated == {f \in Flows : HasEv(f, "generate")}

\* what the upstream answer of an invocation carries
CarriesUrl(r) == r.exc = "" /\ r.data # <<>> /\ r.data[1].url # ""
CarriesBytes(r) == r.exc = "" /\ r.data # <<>> /\ r.data[1].b64_json # ""

\* C11: the result of a generator call follows from the upstream answer: an
\* answer with a URL gives Success(that URL), with or without inline bytes; an
\* answer with inline bytes and no URL gives Success(path of the temporary
\* file) when the bytes decode and the file is written; an answer with neither
\* form, an empty data list included, gives Failure with the fixed reason; an
\* upstream, decode or write error gives Failure with that error's text; and
\* the invocation takes a Failure to its notice, the exception does not leave
\* the handler.
C11_GeneratorResultMap ==
    \A f \in Generated :
        LET r == flows[f].resp
            res == flows[f].result
        IN /\ CarriesUrl(r) => res = Success(r.data[1].url)
           /\ (CarriesBytes(r) /\ ~CarriesUrl(r)) =>
                 \/ res = Success("/tmp/tmpfile.png") /\ flows[f].disk_ok
                 \/ res = Failure("Incorrect padding") /\ r.data[1].b64_json = "not-base64"
                 \/ res = Failure("No space left on device") /\ ~flows[f].disk_ok
           /\ (r.exc = "" /\ ~CarriesUrl(r) /\ ~CarriesBytes(r)) => res = Failure(NoImageReason)
           /\ r.exc # "" => res = Failure(r.exc)
           /\ ~res.ok =>
                 /\ HasEv(f, "reply_text") /\ ~HasEv(f, "reply_photo")
                 /\ flows[f].error_msg[2] = res.value
                 /\ flows[f].pc = "raised" => HasEv(f, "text_failed")

\* the regenerate invocations that have started
Regens == {f \in Flows : flows[f].handler = "on_regen_button"}

\* the calls and writes a handler makes after line 168
AfterAnswer ==
    {"set_chat", "read_last", "delete", "generate", "reply_photo", "reply_text",
     "photo_sent", "text_sent", "record", "get_file", "edit_markup"}

\* C12 (in every state): the first call of a regenerate invocation is
\* query.answer(), it is made once, and the write of the chat, the deletion,
\* the generator call and every send come after its return; when it raises
\* the invocation does nothing more.
C12_AnswerCalledFirst ==
    \A f \in Regens :
        /\ Evs(f, "answer") = {2}
        /\ Cardinality(Evs(f, "answered") \cup Evs(f, "answer_failed")) <= 1
        /\ \A i \in DOMAIN log[f] :
              log[f][i].ev \in AfterAnswer => \E j \in Evs(f, "answered") : j < i
        /\ HasEv(f, "answer_failed") =>
              /\ Len(log[f]) = 3
              /\ flows[f].pc = "raised"
              /\ SentBy(f) = {}

\* C12 (in every step): the step in which a regenerate update arrives only
\* awaits query.answer(): it leaves the sessions, the chats and the generator
\* alone; and no invocation comes to await query.answer() a second time.
C12_ArrivalOnlyAnswers ==
    \A f \in Flows :
        /\ (flows[f].pc = "new" /\ flows'[f].handler = "on_regen_button") =>
              /\ flows'[f].pc = "answer"
              /\ UserSessions' = UserSessions
              /\ msgs' = msgs
              /\ genCalls' = genCalls
        /\ (flows'[f].pc = "answer" /\ flows'[f] # flows[f]) => flows[f].pc = "new"

\* C12: a regenerate invocation acknowledges the action before it writes the
\* session, asks for the deletion, calls the generator or sends anything, and
\* it acknowledges once.
C12_AcknowledgedFirst == []C12_AnswerCalledFirst /\ [][C12_ArrivalOnlyAnswers]_vars

\* C12 witness: a regenerate invocation acknowledged, had the tracked message
\* deleted, generated and sent its image
C12_Witness ==
    \E f \in Regens :
        /\ HasEv(f, "answered")
        /\ HasEv(f, "delete_ok")
        /\ HasEv(f, "generate")
        /\ HasEv(f, "photo_sent")
        /\ flows[f].pc = "done"

\* the image messages
Photos == {p \in AllMsgs : Msg(p).kind = "photo"}

\* the prompt the generator received in the call of invocation f at history
\* position k: the payload without the variation suffix
PromptReceived(f, k) ==
    LET payload == genCalls[log[f][k].arg + 1]
    IN SubSeq(payload, 1, Len(payload) - Len(variation_suffix(0)))

\* the image messages whose regenerate button invocation g can have been
\* started from: sent in g's chat by an earlier invocation, with a button that
\* carries g's callback data
TappedBy(g) ==
    {p \in Photos :
        /\ p[1] = flows[g].chat
        /\ Msg(p).flow < g
        /\ \E j \in 1..2 : Msg(p).reply_markup[j].callback_data = flows[g].data}

\* C13: every image message sent for prompt P has the two regenerate buttons
\* with payload "regen|" + P, as first sent and with the download button
\* added, and the generator received P for it; a regenerate invocation started
\* from a button of such a message works with the same P, taken from the
\* payload alone, and hands P to the generator.
C13_PromptRidesInPayload ==
    /\ \A p \in Photos :
          LET f == Msg(p).flow
              P == flows[f].script
          IN /\ Msg(p).reply_markup \in {RegenKeyboard(P), DownloadKeyboard(P, DownloadUrl)}
             /\ \A j \in 1..2 :
                   Msg(p).reply_markup[j].callback_data = REGEN \o <<Pipe>> \o P
             /\ \A k \in Evs(f, "generate") : PromptReceived(f, k) = P
    /\ \A g \in Decoded :
          /\ \A p \in TappedBy(g) : flows[g].script = flows[Msg(p).flow].script
          /\ IsButtonData(flows[g].data) => flows[g].script = ButtonPrompt(flows[g].data)
          /\ \A k \in Evs(g, "generate") : PromptReceived(g, k) = flows[g].script

\* C13 witness: a regenerate invocation started from an image that already had
\* its download button sent an image of its own for the same prompt, which got
\* its download button too
C13_Witness ==
    \E g \in Decoded : \E p \in TappedBy(g) : \E q \in SentBy(g) :
        /\ Msg(p).reply_markup = DownloadKeyboard(flows[g].script, DownloadUrl)
        /\ Msg(q).kind = "photo"
        /\ Msg(q).reply_markup = DownloadKeyboard(flows[Msg(p).flow].script, DownloadUrl)
        /\ flows[g].script # <<>>

\* the steps of one invocation in the order of lines 129-154 / 173-197
PhotoPath ==
    <<"set_chat", "read_last", "delete", "generate", "reply_photo", "photo_sent",
      "record", "get_file", "edit_markup">>

\* the place of every call, return and write in the order of lines 125-164 /
\* 167-207; the two outcomes of a call share a place
StepRank ==
    [begin |-> 0, answer |-> 1, answered |-> 2, answer_failed |-> 2,
     set_chat |-> 3, read_last |-> 4, delete |-> 5,
     delete_ok |-> 6, delete_refused |-> 6, delete_missing |-> 6,
     generate |-> 7, reply_photo |-> 8, photo_failed |-> 9, reply_text |-> 10,
     photo_sent |-> 11, text_sent |-> 11, text_failed |-> 11, record |-> 12,
     get_file |-> 13, get_file_ok |-> 14, get_file_failed |-> 14,
     edit_markup |-> 15, edit_ok |-> 16, edit_failed |-> 16]

\* the returns of the deletion
DeleteReturns == {"delete_ok", "delete_refused", "delete_missing"}

\* C14 (in every state): the history of an invocation goes strictly upward in
\* the order store chat, read the session, ask for the deletion, generate, ask
\* for the send, record the id, attach the download button, each at most once;
\* the session is read right after the chat is stored; the generator is called
\* right after the session was read with nothing to delete or right after the
\* deletion returned; a send is asked for right after the generator call (the
\* notice also right after a failed photo send); the id is recorded right
\* after the send returned; the button is attached right after the id of a
\* sent image was recorded, and never once a notice was asked for.
C14_StepsInOrder ==
    \A f \in Flows :
        LET L == log[f]
        IN /\ \A i \in 1..(Len(L) - 1) : StepRank[L[i].ev] < StepRank[L[i + 1].ev]
           /\ \A i \in DOMAIN L :
                LET ev == L[i].ev
                    prev == IF i > 1 THEN L[i - 1].ev ELSE ""
                IN /\ ev = "read_last" => prev = "set_chat"
                   /\ ev = "delete" => prev = "read_last"
                   /\ ev \in DeleteReturns => prev = "delete"
                   /\ ev = "generate" => prev \in DeleteReturns \cup {"read_last"}
                   /\ ev = "reply_photo" => prev = "generate" /\ flows[f].result.ok
                   /\ ev = "reply_text" => prev \in {"generate", "photo_failed"}
                   /\ ev = "photo_sent" => prev = "reply_photo"
                   /\ ev = "text_sent" => prev = "reply_text"
                   /\ ev = "record" => prev \in {"photo_sent", "text_sent"}
                   /\ ev = "get_file" =>
                        /\ prev = "record"
                        /\ L[i - 2].ev = "photo_sent"
                        /\ \A j \in 1..i : L[j].ev # "reply_text"
                        /\ Msg(Sent(f)).kind = "photo" /\ Msg(Sent(f)).flow = f
                   /\ ev = "edit_markup" => prev = "get_file_ok"
           /\ flows[f].sent # None => HasEv(f, "generate")

\* C14 (in every step): the generator is called only in a step of an
\* invocation that is past its deletion (none was needed, or it has returned);
\* a message appears only in a step of an invocation that had called the
\* generator before; an invocation comes to attach the button in the step that
\* sends the image and stores its id.
C14_StepsFollow ==
    /\ \A f \in Flows :
          /\ (flows'[f] # flows[f] /\ Len(genCalls') > Len(genCalls)) =>
                /\ flows[f].pc \in {"new", "answer", "delete"}
                /\ flows'[f].pc \in {"reply_photo", "reply_text"}
                /\ Len(genCalls') = Len(genCalls) + 1
                /\ ~HasEv(f, "generate")
          /\ (flows'[f].pc = "get_file" /\ flows[f].pc # "get_file") =>
                /\ flows[f].pc = "reply_photo"
                /\ UserSessions'[flows[f].user].last_msg_id = flows'[f].sent
                /\ msgs'[flows[f].chat][flows'[f].sent].flow = f
    /\ \A c \in Chats :
          Len(msgs'[c]) > Len(msgs[c]) =>
             LET f == msgs'[c][Len(msgs'[c])].flow
             IN /\ flows[f].pc \in {"reply_photo", "reply_text"}
                /\ HasEv(f, "generate")

\* C14: the steps of an invocation come in the order store chat, retire,
\* generate, send, record, enrich.
C14_StrictOrder == []C14_StepsInOrder /\ [][C14_StepsFollow]_vars

\* C14 witness: a new-prompt invocation went through every step: the tracked
\* message deleted, the image generated, sent and recorded, the button attached
C14_Witness ==
    \E f \in Flows :
        /\ flows[f].handler = "handle_script"
        /\ Len(log[f]) > 0
        /\ \A k \in 1..Len(PhotoPath) : HasEv(f, PhotoPath[k])
        /\ HasEv(f, "delete_ok")
        /\ HasEv(f, "edit_ok")

\* the ids invocation f found tracked when it retired
ReadLast(f) == {log[f][i].arg : i \in Evs(f, "read_last")}

\* f and g ran for one user in one chat, both found the same message id
\* tracked and asked for its deletion, both sent a message, f first
Raced(f, g) ==
    /\ f # g
    /\ flows[f].user # None
    /\ flows[f].user = flows[g].user
    /\ flows[f].chat = flows[g].chat
    /\ HasEv(f, "delete") /\ HasEv(g, "delete")
    /\ ReadLast(f) = ReadLast(g)
    /\ flows[f].del_msg = flows[g].del_msg
    /\ flows[f].sent # None /\ flows[g].sent # None
    /\ Msg(Sent(f)).date < Msg(Sent(g)).date

\* the session of user u tracks message p
Tracks(u, p) == UserSessions[u].chat_id = p[1] /\ UserSessions[u].last_msg_id = p[2]

\* C15: when two invocations of one user in one chat both found the same
\* message id tracked, both asked for its deletion and both sent a message,
\* then they overlapped, at most one of the two deletions succeeded, the two
\* sent messages are different, the user's session does not track the one
\* sent first, it tracks the one sent last as long as nothing newer was sent
\* for the user, and the one sent first stays shown unless an invocation that
\* found it tracked had it deleted.
C15_LastRecorderWins ==
    \A f, g \in Flows :
        Raced(f, g) =>
            LET u == flows[f].user
                later == IF f < g THEN g ELSE f
            IN /\ log[later][1].arg >= 1
               /\ ~(HasEv(f, "delete_ok") /\ HasEv(g, "delete_ok"))
               /\ Sent(f) # Sent(g)
               /\ ~Tracks(u, Sent(f))
               /\ (\A r \in SentFor(u) : Msg(r).date <= Msg(Sent(g)).date) =>
                     Tracks(u, Sent(g))
               /\ (\A h \in Flows :
                      ~(/\ <<flows[h].del_chat, flows[h].del_msg>> = Sent(f)
                        /\ HasEv(h, "delete_ok"))) => Msg(Sent(f)).visible

\* C15 witness: two overlapping taps both found image 1 tracked and asked for
\* its deletion (one succeeded, the other found it gone), both sent an image;
\* every invocation has ended, the session tracks the image sent last, and
\* the image sent first is shown and tracked by no session
C15_Witness ==
    \E f, g \in Flows :
        /\ Raced(f, g)
        /\ ReadLast(f) = {1}
        /\ HasEv(f, "delete_ok") /\ HasEv(g, "delete_missing")
        /\ \A h \in Flows : flows[h].pc = "done"
        /\ Msg(Sent(f)).kind = "photo" /\ Msg(Sent(g)).kind = "photo"
        /\ Msg(Sent(f)).visible /\ Msg(Sent(g)).visible
        /\ Tracks(flows[f].user, Sent(g))
        /\ \A v \in Users : ~Tracks(v, Sent(f))

\* the invocations whose enrichment failed, at get_file or at edit_reply_markup
EnrichFailed == {f \in Flows : HasEv(f, "get_file_failed") \/ HasEv(f, "edit_failed")}

\* C16 (in every state): an invocation whose enrichment failed has ended
\* normally; the one message it sent is its image, still with the two
\* regenerate buttons it was sent with; it asked for no notice; and the user's
\* session still tracks that image as long as nothing newer was sent for the
\* user.
C16_ImageKeptAsSent ==
    \A f \in EnrichFailed :
        /\ flows[f].pc = "done"
        /\ ~HasEv(f, "reply_text") /\ ~HasEv(f, "text_sent")
        /\ SentBy(f) = {Sent(f)}
        /\ Msg(Sent(f)).kind = "photo"
        /\ Msg(Sent(f)).reply_markup = RegenKeyboard(flows[f].script)
        /\ (\A r \in SentFor(flows[f].user) : Msg(r).date <= Msg(Sent(f)).date) =>
              /\ UserSessions[flows[f].user].last_msg_id = flows[f].sent
              /\ UserSessions[flows[f].user].chat_id # None

\* C16 (in every step): the step in which the enrichment fails ends the
\* invocation and leaves the sessions, the chats and the generator as they were.
C16_FailureChangesNothing ==
    \A f \in Flows :
        (flows[f].pc \in {"get_file", "edit_markup"} /\ f \in EnrichFailed') =>
            /\ flows'[f].pc = "done"
            /\ UserSessions' = UserSessions
            /\ msgs' = msgs
            /\ genCalls' = genCalls

\* C16: a failure of get_file or of edit_reply_markup after the image was sent
\* leaves the image with its regenerate buttons and the session as they were,
\* sends no notice, and the invocation ends normally.
C16_EnrichmentBestEffort == []C16_ImageKeptAsSent /\ [][C16_FailureChangesNothing]_vars

\* C16 witness: one invocation ended after get_file failed and another after
\* edit_reply_markup failed, and the image of the latter is shown and tracked
C16_Witness ==
    \E f, g \in Flows :
        /\ HasEv(f, "get_file_failed")
        /\ HasEv(g, "edit_failed")
        /\ flows[g].pc = "done"
        /\ Msg(Sent(g)).visible
        /\ Tracks(flows[g].user, Sent(g))

\* C17: the generator call is a suspension point like the deletion, the send
\* and the file lookup: the step in which an invocation starts the call ends
\* with the invocation waiting for the call's return, its result not yet
\* there and no send asked for, so that other invocations can take steps
\* before the call returns.
C17_GeneratorCallSuspends ==
    [][\A f \in Flows :
          (HasEv(f, "generate")' /\ ~HasEv(f, "generate")) =>
              /\ ~HasEv(f, "reply_photo")' /\ ~HasEv(f, "reply_text")'
              /\ flows'[f].pc \notin {"reply_photo", "reply_text"}
              /\ flows'[f].result = NewFlow.result]_vars

\* the invocations that have ended, by returning or with an exception
Ended == {f \in Flows : flows[f].pc \in {"done", "raised"}}

\* what an ended invocation f has left behind: one generator call, one sent
\* message, which is an image with a regenerate button (Shown) or a notice
\* (Errored), recorded as the user's last message and still tracked when
\* nothing newer was sent for the user
ShownOrErrored(f) ==
    /\ Cardinality(Evs(f, "generate")) = 1
    /\ flows[f].sent # None
    /\ SentBy(f) = {Sent(f)}
    /\ \/ /\ Msg(Sent(f)).kind = "photo"
          /\ \E j \in DOMAIN Msg(Sent(f)).reply_markup :
                Msg(Sent(f)).reply_markup[j].callback_data = CallbackData(flows[f].script)
       \/ /\ Msg(Sent(f)).kind = "text"
          /\ Msg(Sent(f)).reply_markup = <<>>
    /\ HasEv(f, "record")
    /\ (\A r \in SentFor(flows[f].user) : Msg(r).date <= Msg(Sent(f)).date) =>
          UserSessions[flows[f].user].last_msg_id = flows[f].sent

\* C18: an invocation that has ended called the generator exactly once and
\* left the user's session Shown or Errored: it sent one image with a
\* regenerate button or one notice and recorded it as the last message.
C18_EndsShownOrErrored == \A f \in Ended : ShownOrErrored(f)

\* message p is the one sent last for user u
LatestFor(u, p) ==
    /\ p \in SentFor(u)
    /\ \A r \in SentFor(u) : Msg(r).date <= Msg(p).date

\* C19: in the step in which an invocation reads the session and asks for a
\* deletion, the request names the chat and the id of the message sent last
\* for that user: the stored chat id is the chat that message was sent in.
C19_DeleteGoesToItsChat ==
    [][\A f \in Flows :
          (flows[f].pc # "delete" /\ flows'[f].pc = "delete") =>
              LatestFor(flows'[f].user, <<flows'[f].del_chat, flows'[f].del_msg>>)]_vars

\* the step is one of invocation f
StepOf(f) == flows'[f] # flows[f]

\* the step puts a new message into a chat
Sends == \E c \in Chats : Len(msgs'[c]) > Len(msgs[c])

\* C20: a step of an invocation for user u leaves every other user's entry
\* as it was and removes no entry; in u's entry it changes the chat id only to
\* the chat of the update and the last message id only to the id of a message
\* it sends in that step, so that an entry that exists is not reset when u
\* interacts again; and the deletion it asks for names the message id u's
\* entry held when it was read.
C20_OnlyOwnEntry ==
    [][\A f \in Flows :
          StepOf(f) =>
              LET u == flows'[f].user
              IN /\ \A v \in Users \ {u} : UserSessions'[v] = UserSessions[v]
                 /\ \A v \in Users : UserSessions[v].exists => UserSessions'[v].exists
                 /\ UserSessions'[u].chat_id \in {UserSessions[u].chat_id, flows'[f].chat}
                 /\ IF Sends
                    THEN UserSessions'[u].last_msg_id = flows'[f].sent
                    ELSE UserSessions'[u].last_msg_id = UserSessions[u].last_msg_id
                 /\ (flows[f].pc # "delete" /\ flows'[f].pc = "delete") =>
                       /\ flows'[f].del_msg = UserSessions[u].last_msg_id
                       /\ flows'[f].del_msg # None
                       /\ flows'[f].del_chat = UserSessions'[u].chat_id]_vars

\* C20 witness: a user whose entry tracks a message interacts again from the
\* other chat: the entry has the new chat and still the tracked id, which the
\* invocation asks to delete, and the other user has no entry
C20_Witness ==
    \E f \in Flows :
        /\ flows[f].pc = "delete"
        /\ UserSessions[flows[f].user].exists
        /\ UserSessions[flows[f].user].last_msg_id = flows[f].del_msg
        /\ UserSessions[flows[f].user].chat_id = flows[f].chat
        /\ \E p \in SentFor(flows[f].user) : p[1] # flows[f].chat /\ p[2] = flows[f].del_msg
        /\ \A v \in Users \ {flows[f].user} : UserSessions[v] = NoEntry

====
